---- MODULE Spec2Model ----
(***************************************************************************)
(* Watch-party playback synchronisation: VideoPlayer engines joined by an  *)
(* ordered data channel.  Both builds of the player are modelled: the      *)
(* older one (native play/pause/seeked handlers send, 300 ms settle) and   *)
(* the newer one (togglePlay/handleSeek send, 500 ms settle).              *)
(*                                                                         *)
(* Units: wall-clock time and media positions are integers in              *)
(* milliseconds (0.5 s = 500).                                             *)
(*                                                                         *)
(* isProcessingSync is React state: a handler reads the value captured by  *)
(* the last render (procSeen), which trails the value last set             *)
(* (procState) until the component re-renders.  Renders, queued native     *)
(* media events and due timers all run before the clock advances, in any   *)
(* order.  video.play() is taken to succeed (the page has had a user       *)
(* gesture).  The newer build's isPlaying/currentTime state only drives    *)
(* the controls and is left out.  The page mounts VideoPlayer without an   *)
(* onSyncReceived prop, so that callback never runs.                       *)
(***************************************************************************)
EXTENDS Integers, Sequences, FiniteSets, TLC

\* ------------------------------------------------------------------ bounds
TickStep == 200
StartTime == 1000
MaxTime == 1250
PosStep == 250
MaxPos == 750
MaxChan == 1
MaxInject == 2
MaxActs == 2
MaxPairActs == 3
MaxWatchActs == 2
MaxKeyActs == 4
MaxEvents == 1

\* ------------------------------------------------------- program constants
DEBOUNCE_MS == 200
SYNC_THRESHOLD == 500
SETTLE_OLD == 300
SETTLE_NEW == 500
KEY_SEEK == 5000

Peers == {1, 2}
Versions == {"old", "new"}
Other(p) == 3 - p

\* generateSenderId: one id per engine instance, drawn once at mount.
senderId(p) == p

\* Media positions of the modelled file, and the value a timestamp takes
\* when ToNumber of the wire value is NaN (key missing, non-numeric text).
Positions == {i * PosStep : i \in 0..(MaxPos \div PosStep)}
NaN == 0 - 1
Timestamps == Positions \cup {NaN}

SyncActions == {"play", "pause", "seek", "ready", "timeupdate"}
Moves == {"play", "pause", "seek"}
\* A payload that JSON.parse rejects.
Garbage == [action |-> "garbage", timestamp |-> NaN, senderId |-> 0]
\* What an arbitrary channel may deliver to p: every move with every
\* timestamp from the other side, every action under p's own id, the
\* informational actions, and a malformed payload.
Payloads(p) ==
    [action : Moves, timestamp : Timestamps, senderId : {senderId(Other(p))}]
    \cup [action : SyncActions, timestamp : {MaxPos}, senderId : {senderId(p)}]
    \cup [action : {"ready", "timeupdate"}, timestamp : {MaxPos},
          senderId : {senderId(Other(p))}]
    \cup {Garbage}

Abs(x) == IF x < 0 THEN 0 - x ELSE x

VARIABLES
    ver,            \* build of the player the peers run
    live,           \* the engines that are mounted and modelled
    now,            \* Date.now()
    chan,           \* chan[p]: payloads in flight to p, in send order
    paused,         \* video.paused
    pos,            \* video.currentTime
    loaded,         \* a local media file has been selected
    pending,        \* the selected file's metadata has not arrived (readyState HAVE_NOTHING)
    procState,      \* React state isProcessingSync, the value last set
    procSeen,       \* isProcessingSync as captured by the last render's handlers
    timers,         \* expiries of the pending setTimeout(() => setIsProcessingSync(false))
    lastSyncTime,   \* lastSyncTimeRef.current
    events,         \* native media events queued for the listeners
    users,          \* the browser clients whose connection set-up is modelled
    home,           \* Home: currentView, role, pendingRole, connectionStatus, peer
    room,           \* RoomCreator / RoomJoiner: status, hasSignaledRef, peer, generated key, errorMessage
    rtc,            \* rtc[c]: the simple-peer objects client c has created
    \* history variables (not program state)
    last,           \* what the last step did
    appliedAt,      \* time of the last inbound message applied without error, while its window runs
    playAppliedAt,  \* time of the last inbound Play applied, while its window runs
    lastAct,        \* last local user action of each peer
    actPos,         \* position at each peer's play, pause or seek just performed
    crossed,        \* the last local action sent a play/pause past one still in flight the other way
    sentAt,         \* time of the last play/pause/seek handed to the channel
    injected,       \* number of payloads put on the channel by the environment
    acts,           \* number of local user actions so far
    slast           \* what the last connection set-up step did

playerVars == <<paused, pos, loaded, pending>>
guardVars == <<procState, procSeen, timers, lastSyncTime>>
histVars == <<last, appliedAt, playAppliedAt, lastAct, actPos, crossed, sentAt, injected, acts>>
engineVars == <<now, chan, playerVars, guardVars, events, histVars>>
sessVars == <<users, home, room, rtc, slast>>
vars == <<ver, live, engineVars, sessVars>>

NoTime == 0 - 1
\* Settle windows are recorded for the engine that faces the open channel,
\* local actions for connected pairs.
Watched(p) == live = {p}
Acted(p, act) == IF live = Peers THEN [lastAct EXCEPT ![p] = act] ELSE lastAct
ActedAt(p, x) == IF Watched(p) THEN [actPos EXCEPT ![p] = x] ELSE actPos
\* The action's position is kept only while its media event is still queued.
ActKept == [q \in Peers |-> IF events[q] = <<>> THEN NoTime ELSE actPos[q]]
Settle == IF ver = "old" THEN SETTLE_OLD ELSE SETTLE_NEW
EndTime == MaxTime

\* The step record: operation, peer, payload handled, messages handed to
\* the channel, and the peer's state before the step.
\* link0: the peer as sendSyncMessage found it; threw: peer.send threw;
\* raised: an error left sendSyncMessage.
Step(op, p, d, sent) ==
    [op |-> op, p |-> p, d |-> d, sent |-> sent,
     pos0 |-> pos[p], paused0 |-> paused[p],
     proc0 |-> procState[p], seen0 |-> procSeen[p], sentAt0 |-> sentAt[p],
     link0 |-> "open", threw |-> FALSE, raised |-> FALSE]
NoStep(op) ==
    [op |-> op, p |-> 0, d |-> Garbage, sent |-> <<>>,
     pos0 |-> 0, paused0 |-> TRUE, proc0 |-> FALSE, seen0 |-> FALSE,
     sentAt0 |-> NoTime, link0 |-> "open", threw |-> FALSE, raised |-> FALSE]

\* ------------------------------------------------ connection set-up: data
\* Bounds of the connection set-up.
MaxPeers == 1
MaxMounts == 1
MaxTimers == 1
MaxCalls == 2
MaxOffers == 2

\* useState<Peer.Instance | null>(null); peers are numbered from 1 in rtc[c].
NoPeer == 0

\* Home and a freshly mounted RoomCreator / RoomJoiner (instance inst).
\* localData: the generated key (offerData of the host, answerData of the
\* guest) is set.
Home0 ==
    [currentView |-> "landing", role |-> "none", pendingRole |-> "none",
     connectionStatus |-> "disconnected", peer |-> NoPeer]
Room0(inst) ==
    [inst |-> inst, status |-> "idle", hasSignaled |-> FALSE, peer |-> NoPeer,
     localData |-> FALSE, errorMessage |-> ""]

\* A simple-peer object right after createPeerConnection and
\* setupPeerListeners by room instance inst.  calls: calls of peer.signal;
\* signalled: 1 once such a call has returned (the peer has the remote
\* signal); timers: pending fallback timeouts; torn
\* (history): Home was torn down while this peer existed.
NewPeer(isInitiator, inst) ==
    [initiator |-> isInitiator, inst |-> inst, destroyed |-> FALSE,
     calls |-> 0, signalled |-> 0, timers |-> 0, torn |-> FALSE]

\* What a user can paste into the remote-signal box: nothing or white
\* space, text that is not JSON, JSON that is no object (a number, null),
\* an object without a type key, and objects of type offer, answer or
\* another type.
Texts == {"blank", "notJSON", "number", "noType", "offer", "answer", "candidate"}
SignalTypes == {"offer", "answer", "candidate"}
\* The same with the remaining kinds of JSON value: null, a string, an array.
JSONTexts == Texts \cup {"null", "string", "array"}

\* String.prototype.trim, as the handlers use it: is anything left.
trim(text) == IF text = "blank" THEN "" ELSE text

\* JSON.parse: throws, or yields a value that is truthy or not, has a
\* typeof, and carries a type key or not (typeof null and typeof [] are
\* 'object').
JSONparse(text) ==
    CASE text \in {"blank", "notJSON"} ->
            [throws |-> TRUE, truthy |-> FALSE, typeof |-> "undefined",
             hasType |-> FALSE, type |-> "none"]
      [] text = "number" ->
            [throws |-> FALSE, truthy |-> TRUE, typeof |-> "number",
             hasType |-> FALSE, type |-> "none"]
      [] text = "string" ->
            [throws |-> FALSE, truthy |-> TRUE, typeof |-> "string",
             hasType |-> FALSE, type |-> "none"]
      [] text = "null" ->
            [throws |-> FALSE, truthy |-> FALSE, typeof |-> "object",
             hasType |-> FALSE, type |-> "none"]
      [] text \in {"array", "noType"} ->
            [throws |-> FALSE, truthy |-> TRUE, typeof |-> "object",
             hasType |-> FALSE, type |-> "none"]
      [] OTHER ->
            [throws |-> FALSE, truthy |-> TRUE, typeof |-> "object",
             hasType |-> TRUE, type |-> text]

\* A validation that accepts every text.
validateAnything(data) == TRUE

\* A validation without the 'type' in parsed test.
validateObject(data) ==
    LET parsed == JSONparse(data) IN
    ~parsed.throws /\ parsed.truthy /\ parsed.typeof = "object"

\* validateSignalData: parsed && typeof parsed === 'object' && 'type' in parsed;
\* the catch returns false.
validateSignalData(data) ==
    LET parsed == JSONparse(data) IN
    IF parsed.throws THEN FALSE
    ELSE parsed.truthy /\ parsed.typeof = "object" /\ parsed.hasType

\* A role test that accepts every typed signal.
IsAnyKind(parsed, kind) == parsed.hasType

\* The role test of the handlers: answer.type !== 'answer', offer.type !== 'offer'.
IsKind(parsed, kind) == parsed.type = kind

\* Error messages of the handlers.
PasteAnswerFirst == "Please paste the guest's answer data"
AlreadyProcessing == "Already processing connection. Please wait..."
AlreadyConnected == "Already connected!"
ConnectionWasClosed == "Connection was closed. Please refresh and try again."
InvalidAnswer == "Invalid answer data format"
WrongTypeHost == "Wrong signal type! As HOST, you must paste the GUEST's ANSWER"
PasteOfferFirst == "Please paste the host's OFFER first"
InvalidOffer == "Invalid OFFER format"
WrongTypeGuest == "Wrong signal type! You must paste the HOST's KEY"
FailedToParse == "Failed to parse OFFER data"
NoPublicIP == "Warning: No public IP found. Internet connection will likely fail."
TransportMessage == "Connection error occurred"

\* Calls of peer.signal made so far on the peers of a client.
RECURSIVE SignalCalls(_)
SignalCalls(peers) ==
    IF peers = <<>> THEN 0 ELSE Head(peers).calls + SignalCalls(Tail(peers))

\* The step record of the connection set-up: operation, client, peer, text
\* submitted, and what the claims need of the client's state before the
\* step: the room's status and hasSignaledRef, the peers created and the
\* peer.signal calls made, Home's connectionStatus, and whether the peer
\* had been given a remote signal and had been torn down; copied: the step
\* called copyToClipboard; held0: Home already held the peer, which only
\* handleConnectionEstablished stores.
SStep(op, c, k, text) ==
    [op |-> op, c |-> c, k |-> k, text |-> text,
     status0 |-> room[c].status, sig0 |-> room[c].hasSignaled,
     peers0 |-> Len(rtc[c]), calls0 |-> SignalCalls(rtc[c]),
     conn0 |-> home[c].connectionStatus,
     given0 |-> IF k \in DOMAIN rtc[c] THEN rtc[c][k].calls ELSE 0,
     torn0 |-> IF k \in DOMAIN rtc[c] THEN rtc[c][k].torn ELSE FALSE,
     copied |-> FALSE, held0 |-> k # NoPeer /\ home[c].peer = k]
NoSStep ==
    [op |-> "none", c |-> 0, k |-> NoPeer, text |-> "blank",
     status0 |-> "idle", sig0 |-> FALSE, peers0 |-> 0, calls0 |-> 0,
     conn0 |-> "disconnected", given0 |-> 0, torn0 |-> FALSE, copied |-> FALSE,
     held0 |-> FALSE]

InitState ==
    /\ ver \in Versions
    /\ now = StartTime
    /\ chan = [p \in Peers |-> <<>>]
    /\ paused = [p \in Peers |-> TRUE]
    /\ pos = [p \in Peers |-> 0]
    /\ loaded = [p \in Peers |-> FALSE]
    /\ pending = [p \in Peers |-> FALSE]
    /\ procState = [p \in Peers |-> FALSE]
    /\ procSeen = [p \in Peers |-> FALSE]
    /\ timers = [p \in Peers |-> <<>>]
    /\ lastSyncTime = [p \in Peers |-> 0]
    /\ events = [p \in Peers |-> <<>>]
    /\ last = NoStep("init")
    /\ appliedAt = [p \in Peers |-> NoTime]
    /\ playAppliedAt = [p \in Peers |-> NoTime]
    /\ lastAct = [p \in Peers |-> "none"]
    /\ actPos = [p \in Peers |-> NoTime]
    /\ crossed = FALSE
    /\ sentAt = [p \in Peers |-> NoTime]
    /\ injected = 0
    /\ acts = 0
    /\ home = [c \in Peers |-> Home0]
    /\ room = [c \in Peers |-> Room0(0)]
    /\ rtc = [c \in Peers |-> <<>>]
    /\ slast = NoSStep

\* One engine of either build; its peer is whatever the channel delivers.
Init == InitState /\ live = {1} /\ users = {}
\* Two connected peers running the newer build.
InitPair == InitState /\ live = Peers /\ ver = "new" /\ users = {}

\* ------------------------------------------------------------ outbound path
\* The peer prop of VideoPlayer p as sendSyncMessage finds it: null, a
\* destroyed peer, or a live one.  An engine modelled without its
\* connection set-up holds a live peer.
Link(p) ==
    IF p \notin users THEN "open"
    ELSE IF home[p].peer = NoPeer THEN "none"
    ELSE IF rtc[p][home[p].peer].destroyed THEN "destroyed"
    ELSE "open"

\* peer.send of simple-peer (not part of the repository): the payload goes
\* to the data channel, or the call throws (the channel is not open yet
\* when onConnect came from the fallback timer, or is closing).
peerSend(data, throws) ==
    [sent |-> IF throws THEN <<>> ELSE <<data>>, threw |-> throws]

\* Whether peer.send can throw: the channel of an engine modelled with its
\* connection set-up and an arbitrary far end; the channels of connected
\* pairs stay open.
SendThrows(p) == IF p \in users /\ users # Peers THEN BOOLEAN ELSE {FALSE}

\* A sendSyncMessage without its try/catch.
sendSyncMessageUncaught(p, message, throws) ==
    IF Link(p) \in {"none", "destroyed"}
    THEN [sent |-> <<>>, threw |-> FALSE, raised |-> FALSE]
    ELSE LET s == peerSend(message, throws) IN
         [sent |-> s.sent, threw |-> s.threw, raised |-> s.threw]

\* sendSyncMessage: the payloads handed to the channel for one message,
\* whether peer.send threw, and whether an error leaves the function (the
\* catch only logs).
sendSyncMessage(p, message, throws) ==
    IF Link(p) \in {"none", "destroyed"}
    THEN [sent |-> <<>>, threw |-> FALSE, raised |-> FALSE]
    ELSE LET s == peerSend(message, throws) IN
         [sent |-> s.sent, threw |-> s.threw, raised |-> FALSE]

\* The step record of a handler that reached the outbound path.
SendStep(op, p, r) ==
    [Step(op, p, Garbage, r.sent) EXCEPT
        !.link0 = Link(p), !.threw = r.threw, !.raised = r.raised]

\* The !peer test of sendSync and handleFileSelect.
NoLink(p) == Link(p) = "none"

\* What sendSync and handleFileSelect yield when they return early.
NotSent(p) ==
    [sent |-> <<>>, lst |-> lastSyncTime[p], threw |-> FALSE, raised |-> FALSE]

\* A sendSync without the debounce test.
DebouncedNever(p) == FALSE

\* The debounce test of sendSync.
Debounced(p) == now - lastSyncTime[p] < DEBOUNCE_MS

\* The applying-remote test of sendSync, on the flag the handler closed over.
Suppressed(p) == procSeen[p]

\* A sendSync that stamps every message with position 0.
sendSyncUnstamped(p, action, timestamp, throws) ==
    LET s == sendSyncMessage(p, [action |-> action, timestamp |-> 0,
                                 senderId |-> senderId(p)], throws) IN
    IF NoLink(p) \/ Suppressed(p) THEN NotSent(p)
    ELSE IF Debounced(p) THEN NotSent(p)
    ELSE [sent |-> s.sent, lst |-> now, threw |-> s.threw, raised |-> s.raised]

\* A sendSync that stamps lastSyncTimeRef on every attempt, dropped or not.
sendSyncStamping(p, action, timestamp, throws) ==
    LET s == sendSyncMessage(p, [action |-> action, timestamp |-> timestamp,
                                 senderId |-> senderId(p)], throws) IN
    IF NoLink(p) \/ Suppressed(p) THEN [NotSent(p) EXCEPT !.lst = now]
    ELSE IF Debounced(p) THEN [NotSent(p) EXCEPT !.lst = now]
    ELSE [sent |-> s.sent, lst |-> now, threw |-> s.threw, raised |-> s.raised]

\* sendSync: what is handed to the channel and the resulting lastSyncTimeRef.
sendSync(p, action, timestamp, throws) ==
    LET s == sendSyncMessage(p, [action |-> action, timestamp |-> timestamp,
                                 senderId |-> senderId(p)], throws) IN
    IF NoLink(p) \/ Suppressed(p) THEN NotSent(p)
    ELSE IF Debounced(p) THEN NotSent(p)
    ELSE [sent |-> s.sent, lst |-> now, threw |-> s.threw, raised |-> s.raised]

\* handlePlay / handlePause / handleSeeked of the older build: their own
\* isProcessingSync test, then sendSync with the position read at that time.
handleNative(p, action, timestamp, throws) ==
    IF procSeen[p] THEN NotSent(p)
    ELSE sendSync(p, action, timestamp, throws)

\* Listeners on the video element that reach the sync logic: the older
\* build's onPlay/onPause/onSeeked props.
Listens(e) == ver = "old" /\ e \in {"play", "pause", "seeked"}
Fires(e) == IF Listens(e) THEN <<e>> ELSE <<>>

\* video.play() / video.pause(): the event is queued only on a change.
playEvents(p) == IF paused[p] THEN Fires("play") ELSE <<>>
pauseEvents(p) == IF paused[p] THEN <<>> ELSE Fires("pause")

HasRoom(p) == Other(p) \in live => Len(chan[Other(p)]) < MaxChan
EventRoom(p) == Len(events[p]) < MaxEvents

\* The channel to a mounted peer takes the payloads.
Carry(p, sent) ==
    chan' = [chan EXCEPT ![Other(p)] = IF Other(p) \in live THEN @ \o sent ELSE @]

Emit(p, r) ==
    /\ Carry(p, r.sent)
    /\ lastSyncTime' = [lastSyncTime EXCEPT ![p] = r.lst]
    /\ sentAt' = [sentAt EXCEPT ![p] = IF r.sent # <<>> THEN now ELSE @]

\* p hands a play or pause to the channel while a play or pause of the other
\* peer is still on its way to p.
Crossing(p, sent) ==
    /\ sent # <<>>
    /\ sent[1].action \in {"play", "pause"}
    /\ chan[p] # <<>>
    /\ chan[p][Len(chan[p])].action \in {"play", "pause"}

\* The users act until EndTime; what is queued by then still runs.
ActLimit ==
    IF users = Peers THEN MaxWatchActs
    ELSE IF live = Peers THEN MaxPairActs
    ELSE IF live = {2} THEN MaxKeyActs ELSE MaxActs
CanAct == now < EndTime /\ acts < ActLimit

\* Newer build: togglePlay.
TogglePlay(p) ==
    /\ p \in live
    /\ UNCHANGED sessVars
    /\ ver = "new"
    /\ CanAct
    /\ HasRoom(p)
    /\ \E throws \in SendThrows(p) :
       IF paused[p]
       THEN LET r == sendSync(p, "play", pos[p], throws) IN
            /\ paused' = [paused EXCEPT ![p] = FALSE]
            /\ Emit(p, r)
            /\ last' = SendStep("togglePlay", p, r)
            /\ lastAct' = Acted(p, "play")
            /\ actPos' = ActedAt(p, pos[p])
            /\ crossed' = Crossing(p, r.sent)
       ELSE LET r == sendSync(p, "pause", pos[p], throws) IN
            /\ paused' = [paused EXCEPT ![p] = TRUE]
            /\ Emit(p, r)
            /\ last' = SendStep("togglePlay", p, r)
            /\ lastAct' = Acted(p, "pause")
            /\ actPos' = ActedAt(p, pos[p])
            /\ crossed' = Crossing(p, r.sent)
    /\ acts' = acts + 1
    /\ UNCHANGED <<ver, live, now, pos, loaded, pending, procState, procSeen, timers,
                   events, appliedAt, playAppliedAt, injected>>

\* Newer build: handleSeek (the seek bar).
HandleSeek(p, time) ==
    /\ p \in live
    /\ UNCHANGED sessVars
    /\ ver = "new"
    /\ CanAct
    /\ HasRoom(p)
    /\ \E throws \in SendThrows(p) : LET r == sendSync(p, "seek", time, throws) IN
       /\ pos' = [pos EXCEPT ![p] = time]
       /\ Emit(p, r)
       /\ last' = SendStep("handleSeek", p, r)
    /\ lastAct' = Acted(p, "seek")
    /\ actPos' = ActedAt(p, time)
    /\ crossed' = FALSE
    /\ acts' = acts + 1
    /\ UNCHANGED <<ver, live, now, paused, loaded, pending, procState, procSeen, timers,
                   events, appliedAt, playAppliedAt, injected>>

\* Older build: togglePlayPause / Space key.  Only the element is driven;
\* the message is sent by the native event handler.
TogglePlayPause(p) ==
    /\ p \in live
    /\ UNCHANGED sessVars
    /\ ver = "old"
    /\ CanAct
    /\ EventRoom(p)
    /\ IF paused[p]
       THEN /\ paused' = [paused EXCEPT ![p] = FALSE]
            /\ events' = [events EXCEPT ![p] = @ \o playEvents(p)]
            /\ lastAct' = Acted(p, "play")
            /\ actPos' = ActedAt(p, pos[p])
       ELSE /\ paused' = [paused EXCEPT ![p] = TRUE]
            /\ events' = [events EXCEPT ![p] = @ \o pauseEvents(p)]
            /\ lastAct' = Acted(p, "pause")
            /\ actPos' = ActedAt(p, pos[p])
    /\ last' = Step("togglePlayPause", p, Garbage, <<>>)
    /\ crossed' = FALSE
    /\ acts' = acts + 1
    /\ UNCHANGED <<sentAt, ver, live, now, chan, pos, loaded, pending, guardVars,
                   appliedAt, playAppliedAt, injected>>

\* Older build: handleSeekBarChange sets the position and calls handleSeeked
\* itself; the element's seeked event follows.
HandleSeekBarChange(p, time) ==
    /\ p \in live
    /\ UNCHANGED sessVars
    /\ ver = "old"
    /\ CanAct
    /\ EventRoom(p)
    /\ HasRoom(p)
    /\ \E throws \in SendThrows(p) : LET r == handleNative(p, "seek", time, throws) IN
       /\ pos' = [pos EXCEPT ![p] = time]
       /\ events' = [events EXCEPT ![p] = @ \o Fires("seeked")]
       /\ Emit(p, r)
       /\ last' = SendStep("handleSeekBarChange", p, r)
    /\ lastAct' = Acted(p, "seek")
    /\ actPos' = ActedAt(p, time)
    /\ crossed' = FALSE
    /\ acts' = acts + 1
    /\ UNCHANGED <<ver, live, now, paused, loaded, pending, procState, procSeen, timers,
                   appliedAt, playAppliedAt, injected>>

\* handleFileSelect: the element loads the new source (position 0, paused)
\* and Ready is handed to sendSyncMessage directly.  Each user picks a file
\* once in the modelled session.  decoded: the file's metadata is there
\* before anything else happens; otherwise the element stays in
\* HAVE_NOTHING until LoadedMetadata.
HandleFileSelect(p, decoded) ==
    /\ p \in live
    /\ UNCHANGED sessVars
    /\ ~loaded[p]
    /\ CanAct
    /\ HasRoom(p)
    /\ \E throws \in SendThrows(p) :
       LET r == IF NoLink(p) THEN NotSent(p)
                ELSE sendSyncMessage(p, [action |-> "ready", timestamp |-> 0,
                                         senderId |-> senderId(p)], throws) IN
       /\ Carry(p, r.sent)
       /\ last' = SendStep("handleFileSelect", p, r)
    /\ loaded' = [loaded EXCEPT ![p] = TRUE]
    /\ pending' = [pending EXCEPT ![p] = ~decoded]
    /\ pos' = [pos EXCEPT ![p] = 0]
    /\ paused' = [paused EXCEPT ![p] = TRUE]
    /\ lastAct' = Acted(p, "load")
    /\ actPos' = ActedAt(p, NoTime)
    /\ crossed' = FALSE
    /\ acts' = acts + 1
    /\ UNCHANGED <<sentAt, ver, live, now, guardVars, events,
                   appliedAt, playAppliedAt, injected>>

\* A queued native event reaches its listener: handlePlay, handlePause or
\* handleSeeked of the older build.
NativeEvent(p) ==
    /\ p \in live
    /\ UNCHANGED sessVars
    /\ events[p] # <<>>
    /\ HasRoom(p)
    /\ \E throws \in SendThrows(p) :
       LET e == Head(events[p])
           action == IF e = "seeked" THEN "seek" ELSE e
           r == handleNative(p, action, pos[p], throws) IN
       /\ events' = [events EXCEPT ![p] = Tail(@)]
       /\ Emit(p, r)
       /\ last' = SendStep("nativeEvent", p, r)
    /\ UNCHANGED <<acts, ver, live, now, paused, pos, loaded, pending, procState, procSeen, timers,
                   appliedAt, playAppliedAt, lastAct, actPos, crossed, injected>>


\* ---------------------------------------------------------------- keyboard
\* The media element is the browser's, not the repository's.  Assigning
\* video.currentTime seeks once the element has metadata, and the seek
\* keeps the position within [0, duration]; in HAVE_NOTHING the value is
\* kept as the default playback start position, unclamped, and is what
\* video.currentTime then returns.
setCurrentTime(p, time) ==
    IF pending[p] THEN time
    ELSE IF time < 0 THEN 0 ELSE IF time > MaxPos THEN MaxPos ELSE time

\* The element gets its metadata: it seeks to a positive default playback
\* start position and forgets it.
metadataPosition(p) ==
    IF pos[p] > 0 THEN (IF pos[p] > MaxPos THEN MaxPos ELSE pos[p]) ELSE 0

\* isVideoLoaded: the newer build sets it in handleFileSelect, the older in
\* handleLoadedMetadata.
isVideoLoaded(p) == loaded[p] /\ (ver = "old" => ~pending[p])

\* The value the arrow keys assign to video.currentTime: the older build
\* takes Math.max(0, t - 5) and Math.min(duration, t + 5), the newer
\* assigns t - 5 and t + 5.
keyTarget(cur, code) ==
    IF ver = "old"
    THEN IF code = "ArrowLeft" THEN (IF cur - KEY_SEEK < 0 THEN 0 ELSE cur - KEY_SEEK)
         ELSE IF cur + KEY_SEEK > MaxPos THEN MaxPos ELSE cur + KEY_SEEK
    ELSE IF code = "ArrowLeft" THEN cur - KEY_SEEK ELSE cur + KEY_SEEK

KeyCodes == {"Space", "ArrowLeft", "ArrowRight"}

\* handleKeyDown (newer build) / handleKeyPress (older build).  Space is
\* togglePlay, or drives the element; the arrow keys assign the position
\* and send what the element then reports: the newer build through
\* sendSync, the older through handleSeeked, with the element's seeked
\* event to follow.  The keys F and M do not reach the sync logic.  The
\* older listener is installed when isVideoLoaded changes and keeps that
\* render's handleSeeked; without inbound messages its isProcessingSync
\* is the current one.
HandleKeyDown(p, code) ==
    /\ p \in live
    /\ isVideoLoaded(p)
    /\ IF code = "Space"
       THEN IF ver = "new" THEN TogglePlay(p) ELSE TogglePlayPause(p)
       ELSE /\ UNCHANGED sessVars
            /\ CanAct
            /\ HasRoom(p)
            /\ ver = "old" => EventRoom(p)
            /\ \E throws \in SendThrows(p) :
               LET time == setCurrentTime(p, keyTarget(pos[p], code))
                   r == IF ver = "new" THEN sendSync(p, "seek", time, throws)
                        ELSE handleNative(p, "seek", time, throws) IN
               /\ pos' = [pos EXCEPT ![p] = time]
               /\ events' = [events EXCEPT ![p] = @ \o Fires("seeked")]
               /\ Emit(p, r)
               /\ last' = SendStep("handleKeyDown", p, r)
            /\ lastAct' = Acted(p, "seek")
            /\ actPos' = ActedAt(p, setCurrentTime(p, keyTarget(pos[p], code)))
            /\ crossed' = FALSE
            /\ acts' = acts + 1
            /\ UNCHANGED <<ver, live, now, paused, loaded, pending, procState, procSeen,
                           timers, appliedAt, playAppliedAt, injected>>

\* The element's loadedmetadata event: the file is decoded far enough to
\* play.  The listeners (setDuration; duration and isVideoLoaded in the
\* older build) touch only what the controls show.
LoadedMetadata(p) ==
    /\ p \in live
    /\ pending[p]
    /\ pending' = [pending EXCEPT ![p] = FALSE]
    /\ pos' = [pos EXCEPT ![p] = metadataPosition(p)]
    /\ last' = Step("loadedMetadata", p, Garbage, <<>>)
    /\ UNCHANGED <<ver, live, now, chan, paused, loaded, guardVars, events, sessVars,
                   appliedAt, playAppliedAt, lastAct, actPos, crossed, sentAt,
                   injected, acts>>

\* ------------------------------------------------------------- inbound path
\* JSON.parse of the payload succeeds.
Parses(d) == d # Garbage

\* A handleData without the senderId comparison.
IsOwnMessageNever(p, message) == FALSE

\* "Ignore our own messages".
IsOwnMessage(p, message) == message.senderId = senderId(p)

\* A drift test that also resets at exactly the threshold.
DriftExceedsInclusive(cur, timestamp) ==
    /\ timestamp # NaN
    /\ Abs(cur - timestamp) >= SYNC_THRESHOLD

\* Math.abs(video.currentTime - message.timestamp) > 0.5; false for NaN.
DriftExceeds(cur, timestamp) ==
    /\ timestamp # NaN
    /\ Abs(cur - timestamp) > SYNC_THRESHOLD

\* video.currentTime = timestamp raises a TypeError for a non-finite value.
SetTimeThrows(timestamp) == timestamp = NaN

\* The result of a handleData run that leaves the player alone.
Ignored(p, proc) ==
    [pos |-> pos[p], paused |-> paused[p], proc |-> proc,
     timer |-> FALSE, ev |-> <<>>, applied |-> FALSE]

\* Position after an inbound Play: the timestamp beyond the drift threshold.
playTarget(cur, timestamp) ==
    IF DriftExceeds(cur, timestamp) THEN timestamp ELSE cur

\* A pause that leaves the position where it is.
pauseTargetKeep(cur, timestamp) == cur

\* A newer build whose Pause keeps the drift tolerance.
pauseTargetTolerant(cur, timestamp) ==
    IF DriftExceeds(cur, timestamp) THEN timestamp ELSE cur

\* Position after an inbound Pause, newer build: always the timestamp.
pauseTargetNew(cur, timestamp) == timestamp

\* Position after an inbound Pause, older build: the timestamp only beyond
\* the drift threshold.
pauseTargetOld(cur, timestamp) ==
    IF DriftExceeds(cur, timestamp) THEN timestamp ELSE cur

\* A Seek that keeps the drift tolerance.
seekTargetTolerant(cur, timestamp) ==
    IF DriftExceeds(cur, timestamp) THEN timestamp ELSE cur

\* Position after an inbound Seek, both builds: always the timestamp.
seekTarget(cur, timestamp) == timestamp

\* A switch that treats every other action as a Seek.
applyOtherAsSeek(p, m) ==
    [pos |-> seekTarget(pos[p], m.timestamp), paused |-> paused[p],
     ev |-> Fires("seeked"), threw |-> FALSE]

\* The switch on message.action for 'ready' (a log line or nothing) and for
\* an action without a case.
applyOther(p, m) ==
    [pos |-> pos[p], paused |-> paused[p], ev |-> <<>>, threw |-> FALSE]

\* Newer build, the switch on message.action: position, paused, native
\* events queued, and whether a statement threw.
applyNew(p, m) ==
    CASE m.action = "play" ->
           [pos |-> playTarget(pos[p], m.timestamp), paused |-> FALSE,
            ev |-> (IF DriftExceeds(pos[p], m.timestamp) THEN Fires("seeked") ELSE <<>>)
                   \o playEvents(p),
            threw |-> FALSE]
      [] m.action = "pause" ->
           IF SetTimeThrows(m.timestamp)
           THEN [pos |-> pos[p], paused |-> TRUE, ev |-> pauseEvents(p), threw |-> TRUE]
           ELSE [pos |-> pauseTargetNew(pos[p], m.timestamp), paused |-> TRUE,
                 ev |-> pauseEvents(p) \o Fires("seeked"), threw |-> FALSE]
      [] m.action = "seek" ->
           IF SetTimeThrows(m.timestamp)
           THEN [pos |-> pos[p], paused |-> paused[p], ev |-> <<>>, threw |-> TRUE]
           ELSE [pos |-> seekTarget(pos[p], m.timestamp), paused |-> paused[p],
                 ev |-> Fires("seeked"), threw |-> FALSE]
      [] OTHER -> applyOther(p, m)

\* Newer build, handleData: the timer is set last and the catch only logs.
handleDataNew(p, d) ==
    IF ~Parses(d) THEN Ignored(p, procState[p])
    ELSE IF IsOwnMessage(p, d) THEN Ignored(p, procState[p])
    ELSE LET a == applyNew(p, d) IN
         [pos |-> a.pos, paused |-> a.paused, proc |-> TRUE,
          timer |-> ~a.threw, ev |-> a.ev, applied |-> ~a.threw]

\* Older build, the switch on message.action.
applyOld(p, m) ==
    CASE m.action = "play" ->
           [pos |-> playTarget(pos[p], m.timestamp), paused |-> FALSE,
            ev |-> (IF DriftExceeds(pos[p], m.timestamp) THEN Fires("seeked") ELSE <<>>)
                   \o playEvents(p),
            threw |-> FALSE]
      [] m.action = "pause" ->
           [pos |-> pauseTargetOld(pos[p], m.timestamp), paused |-> TRUE,
            ev |-> (IF DriftExceeds(pos[p], m.timestamp) THEN Fires("seeked") ELSE <<>>)
                   \o pauseEvents(p),
            threw |-> FALSE]
      [] m.action = "seek" ->
           IF SetTimeThrows(m.timestamp)
           THEN [pos |-> pos[p], paused |-> paused[p], ev |-> <<>>, threw |-> TRUE]
           ELSE [pos |-> seekTarget(pos[p], m.timestamp), paused |-> paused[p],
                 ev |-> Fires("seeked"), threw |-> FALSE]
      [] OTHER -> applyOther(p, m)

\* Older build, handleData: the catch resets isProcessingSync at once.
handleDataOld(p, d) ==
    IF ~Parses(d) THEN Ignored(p, FALSE)
    ELSE IF IsOwnMessage(p, d) THEN Ignored(p, procState[p])
    ELSE LET a == applyOld(p, d) IN
         [pos |-> a.pos, paused |-> a.paused, proc |-> ~a.threw,
          timer |-> ~a.threw, ev |-> a.ev, applied |-> ~a.threw]

\* A handleData that applies the outbound guards to inbound messages.
handleDataGuarded(p, d) ==
    IF procSeen[p] \/ Debounced(p) THEN Ignored(p, procState[p])
    ELSE IF ver = "old" THEN handleDataOld(p, d) ELSE handleDataNew(p, d)

handleData(p, d) ==
    IF ver = "old" THEN handleDataOld(p, d) ELSE handleDataNew(p, d)

\* The effect of one handleData run on the engine.
Deliver(p, d) ==
    LET r == handleData(p, d) IN
    /\ pos' = [pos EXCEPT ![p] = r.pos]
    /\ paused' = [paused EXCEPT ![p] = r.paused]
    /\ procState' = [procState EXCEPT ![p] = r.proc]
    /\ timers' = [timers EXCEPT ![p] = IF r.timer THEN Append(@, now + Settle) ELSE @]
    /\ events' = [events EXCEPT ![p] = @ \o r.ev]
    /\ appliedAt' = [appliedAt EXCEPT ![p] =
                        IF Watched(p) /\ r.applied THEN now ELSE @]
    /\ playAppliedAt' = [playAppliedAt EXCEPT ![p] =
                            IF Watched(p) /\ r.applied /\ d.action = "play"
                            THEN now ELSE @]
    /\ last' = Step("handleData", p, d, <<>>)

\* peer.on('data', handleData): the head of the channel is handled.
HandleData(p) ==
    /\ p \in live
    /\ UNCHANGED sessVars
    /\ chan[p] # <<>>
    /\ now < EndTime
    /\ EventRoom(p)
    /\ Deliver(p, Head(chan[p]))
    /\ chan' = [chan EXCEPT ![p] = Tail(@)]
    /\ actPos' = ActKept
    /\ UNCHANGED <<sentAt, acts, ver, live, now, loaded, pending, procSeen, lastSyncTime,
                   lastAct, crossed, injected>>

\* The same handler for a payload the peer's engine did not send: a
\* reflected own message, a malformed one, any action and timestamp.
HandleAnyData(p) ==
    /\ p \in live
    /\ UNCHANGED sessVars
    /\ injected < MaxInject
    /\ now < EndTime
    /\ EventRoom(p)
    /\ \E d \in Payloads(p) : Deliver(p, d)
    /\ injected' = injected + 1
    /\ actPos' = ActKept
    /\ UNCHANGED <<sentAt, acts, ver, live, now, chan, loaded, pending, procSeen, lastSyncTime,
                   lastAct, crossed>>

\* ------------------------------------------------ scheduling and environment
\* React re-renders: the handlers now close over the current state.
Render(p) ==
    /\ p \in live
    /\ UNCHANGED sessVars
    /\ procSeen[p] # procState[p]
    /\ procSeen' = [procSeen EXCEPT ![p] = procState[p]]
    /\ last' = NoStep("other")
    /\ UNCHANGED <<sentAt, acts, ver, live, now, chan, playerVars, procState, timers, lastSyncTime,
                   events, appliedAt, playAppliedAt, lastAct, crossed, injected>>
    /\ actPos' = ActKept

\* The oldest settle timer is due: setIsProcessingSync(false).
TimerFire(p) ==
    /\ p \in live
    /\ UNCHANGED sessVars
    /\ timers[p] # <<>>
    /\ Head(timers[p]) <= now
    /\ timers' = [timers EXCEPT ![p] = Tail(@)]
    /\ procState' = [procState EXCEPT ![p] = FALSE]
    /\ last' = NoStep("other")
    /\ UNCHANGED <<sentAt, acts, ver, live, now, chan, playerVars, procSeen, lastSyncTime,
                   events, appliedAt, playAppliedAt, lastAct, crossed, injected>>
    /\ actPos' = ActKept

\* Playback progress of a playing element over one clock step; a stalled
\* (buffering) element keeps its position.
Advance(p, stalled) ==
    IF p \in live /\ ~paused[p] /\ p \notin stalled /\ ~pending[p]
       /\ pos[p] + PosStep <= MaxPos
    THEN pos[p] + PosStep ELSE pos[p]

TimerPending == \E p \in live : timers[p] # <<>>
TimerDue == \E p \in live : timers[p] # <<>> /\ Head(timers[p]) <= now

\* A settle window that began at t is still running at time u.
InWindow(t, u) == t # NoTime /\ u < t + Settle

\* Time passes once the work queued for this instant (renders, native
\* events, due timers) is done, and the playing elements move on.  Windows
\* that are over are forgotten.
Tick ==
    /\ now < EndTime \/ TimerPending
    /\ UNCHANGED sessVars
    /\ ~TimerDue
    /\ \A p \in live : events[p] = <<>> /\ procSeen[p] = procState[p]
    /\ now' = now + TickStep
    /\ \E stalled \in SUBSET live : pos' = [p \in Peers |-> Advance(p, stalled)]
    /\ appliedAt' = [p \in Peers |->
                        IF InWindow(appliedAt[p], now') THEN appliedAt[p] ELSE NoTime]
    /\ playAppliedAt' = [p \in Peers |->
                        IF InWindow(playAppliedAt[p], now') THEN playAppliedAt[p] ELSE NoTime]
    /\ actPos' = [p \in Peers |-> NoTime]
    /\ last' = NoStep("other")
    /\ UNCHANGED <<sentAt, acts, ver, live, chan, paused, loaded, pending, guardVars, events,
                   lastAct, crossed, injected>>

\* One engine of either build facing an arbitrary channel.
Next ==
    \/ \E p \in Peers :
         \/ TogglePlay(p)
         \/ \E time \in Positions : HandleSeek(p, time)
         \/ TogglePlayPause(p)
         \/ \E time \in Positions : HandleSeekBarChange(p, time)
         \/ HandleFileSelect(p, TRUE)
         \/ NativeEvent(p)
         \/ HandleAnyData(p)
         \/ Render(p)
         \/ TimerFire(p)
    \/ Tick

Spec == Init /\ [][Next]_vars

\* Two connected engines of the newer build and nothing else on the channel.
NextPair ==
    \/ \E p \in Peers :
         \/ TogglePlay(p)
         \/ \E time \in Positions : HandleSeek(p, time)
         \/ HandleFileSelect(p, TRUE)
         \/ HandleData(p)
         \/ Render(p)
         \/ TimerFire(p)
    \/ Tick

SpecPair == InitPair /\ [][NextPair]_vars

\* One engine of either build and its user: every local control, the
\* keyboard included, on a file whose metadata arrives at once, later or
\* never.  The seek bar's range is [0, duration], and duration is 0 until
\* the metadata is there.
InitKeys == InitState /\ live = {2} /\ users = {}

\* handleSeek / handleSeekBarChange from a seek bar that has a range.
UseSeekBar(p, time) ==
    /\ ~pending[p]
    /\ IF ver = "new" THEN HandleSeek(p, time) ELSE HandleSeekBarChange(p, time)

NextKeys ==
    \/ \E p \in Peers :
         \/ TogglePlay(p)
         \/ TogglePlayPause(p)
         \/ \E time \in Positions : UseSeekBar(p, time)
         \/ \E decoded \in BOOLEAN : HandleFileSelect(p, decoded)
         \/ \E code \in KeyCodes : HandleKeyDown(p, code)
         \/ LoadedMetadata(p)
         \/ NativeEvent(p)
    \/ Tick

SpecKeys == InitKeys /\ [][NextKeys]_vars

\* --------------------------------------------- connection set-up: handlers
\* RoomCreator and RoomJoiner re-render before the next click (every handler
\* that changes hasSignaledRef also sets state), so a control can be used
\* when the current state renders it.  The state of an unmounted component
\* is discarded; the listeners it installed on a peer stay installed.
\* Media streams and the clipboard are left out.

Hosting(c) == home[c].currentView = "hosting"
Joining(c) == home[c].currentView = "joining"
\* The room component whose handlers installed the listeners of peer k is
\* still mounted, so their setState calls take effect.
Mounted(c, k) == (Hosting(c) \/ Joining(c)) /\ room[c].inst = rtc[c][k].inst

SessFrame == UNCHANGED <<ver, users, engineVars>>

HandleStartHost(c) ==
    /\ c \in users
    /\ home[c].currentView = "landing"
    /\ home' = [home EXCEPT ![c].pendingRole = "host", ![c].currentView = "lobby"]
    /\ slast' = SStep("handleStartHost", c, NoPeer, "blank")
    /\ UNCHANGED <<room, rtc, live>>
    /\ SessFrame

HandleStartJoin(c) ==
    /\ c \in users
    /\ home[c].currentView = "landing"
    /\ home' = [home EXCEPT ![c].pendingRole = "guest", ![c].currentView = "lobby"]
    /\ slast' = SStep("handleStartJoin", c, NoPeer, "blank")
    /\ UNCHANGED <<room, rtc, live>>
    /\ SessFrame

\* handleLobbyContinue (also the tail of handleSkipMedia): the room
\* component of the chosen role is mounted.
HandleLobbyContinue(c) ==
    /\ c \in users
    /\ home[c].currentView = "lobby"
    /\ room[c].inst < MaxMounts
    /\ home' = [home EXCEPT
                  ![c].currentView = IF home[c].pendingRole = "host" THEN "hosting" ELSE "joining",
                  ![c].role = IF home[c].pendingRole = "host" THEN "host" ELSE "guest",
                  ![c].connectionStatus = "connecting"]
    /\ room' = [room EXCEPT ![c] = Room0(room[c].inst + 1)]
    /\ slast' = SStep("handleLobbyContinue", c, NoPeer, "blank")
    /\ UNCHANGED <<rtc, live>>
    /\ SessFrame

\* handleBackToLanding: the Disconnect button of the header (rendered unless
\* the view is 'watching' or 'landing') and the lobby's back button.
\* peer?.destroy() acts on Home's peer, which only
\* handleConnectionEstablished sets.
HandleBackToLanding(c) ==
    /\ c \in users
    /\ home[c].currentView \in {"lobby", "hosting", "joining"}
    /\ rtc' = [rtc EXCEPT ![c] =
                 [k \in DOMAIN rtc[c] |->
                    [rtc[c][k] EXCEPT !.destroyed = @ \/ k = home[c].peer,
                                      !.torn = TRUE]]]
    /\ home' = [home EXCEPT ![c] = Home0]
    /\ room' = [room EXCEPT ![c] = Room0(room[c].inst)]
    /\ live' = live \ {c}
    /\ slast' = SStep("handleBackToLanding", c, home[c].peer, "blank")
    /\ SessFrame

\* RoomCreator.handleGenerateOffer; the button is rendered in status 'idle'.
HandleGenerateOffer(c) ==
    /\ c \in users
    /\ Hosting(c)
    /\ room[c].status = "idle"
    /\ Len(rtc[c]) < MaxPeers
    /\ rtc' = [rtc EXCEPT ![c] = Append(@, NewPeer(TRUE, room[c].inst))]
    /\ room' = [room EXCEPT ![c].status = "generating",
                            ![c].errorMessage = "",
                            ![c].hasSignaled = FALSE,
                            ![c].peer = Len(rtc[c]) + 1]
    /\ slast' = SStep("handleGenerateOffer", c, Len(rtc[c]) + 1, "blank")
    /\ UNCHANGED <<home, live>>
    /\ SessFrame

\* RoomCreator.handleConnect on the pasted text: the new component state,
\* whether the answer went to peer.signal, and whether that call returned.
\* simple-peer is not part of the repository; the handler provides for
\* peer.signal throwing (its catch branch), so the call may throw.
SignalFailed == "Failed to establish connection"
handleConnect(c, answerData, throws) ==
    LET r == room[c]
        reject(msg) == [room |-> [r EXCEPT !.errorMessage = msg], signal |-> FALSE,
                        returned |-> FALSE] IN
    IF r.peer = NoPeer \/ trim(answerData) = "" THEN reject(PasteAnswerFirst)
    ELSE IF r.hasSignaled THEN reject(AlreadyProcessing)
    ELSE IF r.status = "connected" THEN reject(AlreadyConnected)
    ELSE IF rtc[c][r.peer].destroyed THEN reject(ConnectionWasClosed)
    ELSE IF ~validateSignalData(answerData) THEN reject(InvalidAnswer)
    ELSE IF ~IsKind(JSONparse(answerData), "answer") THEN reject(WrongTypeHost)
    ELSE IF throws
         THEN [room |-> [r EXCEPT !.errorMessage = SignalFailed, !.hasSignaled = FALSE,
                                  !.status = "waiting"],
               signal |-> TRUE, returned |-> FALSE]
    ELSE [room |-> [r EXCEPT !.status = "connecting", !.hasSignaled = TRUE,
                             !.errorMessage = ""],
          signal |-> TRUE, returned |-> TRUE]

\* The Connect button: rendered in status 'waiting', disabled while
\* hasSignaledRef is set.
HandleConnect(c, answerData, throws) ==
    /\ c \in users
    /\ Hosting(c)
    /\ room[c].status = "waiting"
    /\ ~room[c].hasSignaled
    /\ rtc[c][room[c].peer].calls < MaxCalls
    /\ LET res == handleConnect(c, answerData, throws) IN
       /\ room' = [room EXCEPT ![c] = res.room]
       /\ rtc' = IF res.signal
                 THEN [rtc EXCEPT ![c][room[c].peer].calls = @ + 1,
                                  ![c][room[c].peer].signalled =
                                      IF res.returned THEN 1 ELSE @]
                 ELSE rtc
    /\ slast' = SStep("handleConnect", c, room[c].peer, answerData)
    /\ UNCHANGED <<home, live>>
    /\ SessFrame

\* RoomJoiner.handleGenerateAnswer on the pasted text; unsupported is a
\* browser in which new Peer() throws (the catch branch).
handleGenerateAnswer(c, offerData, unsupported) ==
    LET r == room[c]
        reject(msg) == [room |-> [r EXCEPT !.errorMessage = msg], created |-> FALSE] IN
    IF trim(offerData) = "" THEN reject(PasteOfferFirst)
    ELSE IF ~validateSignalData(offerData) THEN reject(InvalidOffer)
    ELSE IF ~IsKind(JSONparse(offerData), "offer") THEN reject(WrongTypeGuest)
    ELSE IF unsupported
         THEN [room |-> [r EXCEPT !.status = "error", !.errorMessage = FailedToParse],
               created |-> FALSE]
    ELSE [room |-> [r EXCEPT !.status = "generating", !.errorMessage = "",
                             !.peer = Len(rtc[c]) + 1],
          created |-> TRUE]

\* The peers a client may create: one in the general session, MaxOffers
\* for the guest who stays in the join view.
PeerLimit == IF users = {2} THEN MaxOffers ELSE MaxPeers

\* The Generate & Connect button: disabled in status 'connected' and
\* 'generating'; the newer build renders it only while no answer is shown.
HandleGenerateAnswer(c, offerData, unsupported) ==
    /\ c \in users
    /\ Joining(c)
    /\ ver = "new" => ~room[c].localData
    /\ room[c].status \notin {"connected", "generating"}
    /\ Len(rtc[c]) < PeerLimit
    /\ LET res == handleGenerateAnswer(c, offerData, unsupported) IN
       /\ room' = [room EXCEPT ![c] = res.room]
       /\ rtc' = IF res.created
                 THEN [rtc EXCEPT ![c] =
                         Append(@, [NewPeer(FALSE, room[c].inst) EXCEPT
                                       !.calls = 1, !.signalled = 1])]
                 ELSE rtc
    /\ slast' = SStep("handleGenerateAnswer", c, NoPeer, offerData)
    /\ UNCHANGED <<home, live>>
    /\ SessFrame

\* -------------------------------------- connection set-up: transport events
\* The listeners of setupPeerListeners, as the room components fill them in.

\* The WAN check of onSignal on the candidates found in the signal.
wanMessage(old, wan) ==
    IF wan = "host" THEN NoPublicIP ELSE IF wan = "srflx" THEN old ELSE ""

\* The signal type a session publishes as its key: the initiator's offer,
\* the responder's answer.
RoleKind(isInitiator) == IF isInitiator THEN "offer" ELSE "answer"

\* onSignal reaches its setOfferData / setAnswerData and copyToClipboard
\* calls: always in the older build, past the type filter in the newer.
onSignalCopies(isHost, type) == ver = "new" => type = RoleKind(isHost)

\* onSignal of the host (the newer build ignores non-offer signals) and of
\* the guest (the newer build ignores non-answer signals and runs the WAN
\* check, the older build neither).
onSignal(r, isHost, type, wan) ==
    IF isHost
    THEN IF ver = "new" /\ type # "offer" THEN r
         ELSE [r EXCEPT !.errorMessage = wanMessage(@, wan), !.localData = TRUE,
                        !.status = "waiting"]
    ELSE IF ver = "new"
         THEN IF type # "answer" THEN r
              ELSE [r EXCEPT !.errorMessage = wanMessage(@, wan), !.localData = TRUE]
         ELSE [r EXCEPT !.localData = TRUE]

onError(r, isHost) ==
    [r EXCEPT !.status = "error", !.errorMessage = TransportMessage,
              !.hasSignaled = IF isHost THEN FALSE ELSE @]

onClose(r, isHost) ==
    [r EXCEPT !.status = "idle", !.hasSignaled = IF isHost THEN FALSE ELSE @]

\* onConnect: setStatus('connected') and Home.handleConnectionEstablished;
\* the view changes to 'watching', which unmounts the room component and
\* mounts VideoPlayer on the peer.
OnConnect(c, k) ==
    /\ home' = [home EXCEPT ![c].peer = k, ![c].connectionStatus = "connected",
                            ![c].currentView = "watching"]
    /\ room' = [room EXCEPT ![c] = Room0(room[c].inst)]
    /\ live' = live \cup {c}

\* A transport links two clients' peers only when both ends were given the
\* other's signal; with one client modelled the far end is arbitrary.
Linked(c, k) ==
    users = Peers =>
        \E j \in DOMAIN rtc[Other(c)] :
            /\ rtc[Other(c)][j].signalled > 0
            /\ ~rtc[Other(c)][j].destroyed
            /\ rtc[Other(c)][j].initiator # rtc[c][k].initiator

\* peer.on('signal'): the initiator emits offers, the responder answers
\* once it has the offer; either may emit other negotiation signals.  For a
\* peer that Home already holds the listener changes nothing.
SignalEvent(c, k, type, wan) ==
    /\ c \in users
    /\ k \in DOMAIN rtc[c]
    /\ ~rtc[c][k].destroyed
    /\ home[c].peer # k
    /\ type # (IF rtc[c][k].initiator THEN "answer" ELSE "offer")
    /\ ~rtc[c][k].initiator => rtc[c][k].signalled > 0
    /\ room' = [room EXCEPT ![c] =
                  IF Mounted(c, k) THEN onSignal(@, rtc[c][k].initiator, type, wan) ELSE @]
    /\ slast' = [SStep("onSignal", c, k, type) EXCEPT
                    !.copied = onSignalCopies(rtc[c][k].initiator, type)]
    /\ UNCHANGED <<home, rtc, live>>
    /\ SessFrame

\* peer.on('connect'): emitted once, after the remote signal was given.
ConnectEvent(c, k) ==
    /\ c \in users
    /\ k \in DOMAIN rtc[c]
    /\ ~rtc[c][k].destroyed
    /\ home[c].peer # k
    /\ rtc[c][k].signalled > 0
    /\ Linked(c, k)
    /\ OnConnect(c, k)
    /\ UNCHANGED rtc
    /\ slast' = SStep("onConnect", c, k, "blank")
    /\ SessFrame

\* pc.onconnectionstatechange with connectionState 'connected': the
\* fallback timeout is started.
PcConnected(c, k) ==
    /\ c \in users
    /\ k \in DOMAIN rtc[c]
    /\ ~rtc[c][k].destroyed
    /\ rtc[c][k].signalled > 0
    /\ rtc[c][k].timers < MaxTimers
    /\ Linked(c, k)
    /\ rtc' = [rtc EXCEPT ![c][k].timers = @ + 1]
    /\ slast' = SStep("onconnectionstatechange", c, k, "blank")
    /\ UNCHANGED <<home, room, live>>
    /\ SessFrame

\* The fallback timeout runs: onConnect unless the peer is destroyed.
FallbackFire(c, k) ==
    /\ c \in users
    /\ k \in DOMAIN rtc[c]
    /\ rtc[c][k].timers > 0
    /\ rtc' = [rtc EXCEPT ![c][k].timers = @ - 1]
    /\ IF rtc[c][k].destroyed
       THEN /\ UNCHANGED <<home, room, live>>
            /\ slast' = SStep("fallbackSkipped", c, k, "blank")
       ELSE /\ OnConnect(c, k)
            /\ slast' = SStep("onConnect", c, k, "blank")
    /\ SessFrame

\* pc.oniceconnectionstatechange with iceConnectionState 'failed': onError
\* is called; the peer is not destroyed.
IceFailed(c, k) ==
    /\ c \in users
    /\ k \in DOMAIN rtc[c]
    /\ ~rtc[c][k].destroyed
    /\ rtc[c][k].signalled > 0
    /\ room' = [room EXCEPT ![c] =
                  IF Mounted(c, k) THEN onError(@, rtc[c][k].initiator) ELSE @]
    /\ slast' = SStep("onError", c, k, "blank")
    /\ UNCHANGED <<home, rtc, live>>
    /\ SessFrame

\* A fatal error inside simple-peer: the library destroys the peer and
\* emits 'error' and then 'close'.
TransportError(c, k) ==
    /\ c \in users
    /\ k \in DOMAIN rtc[c]
    /\ ~rtc[c][k].destroyed
    /\ rtc' = [rtc EXCEPT ![c][k].destroyed = TRUE]
    /\ room' = [room EXCEPT ![c] =
                  IF Mounted(c, k)
                  THEN onClose(onError(@, rtc[c][k].initiator), rtc[c][k].initiator)
                  ELSE @]
    /\ slast' = SStep("onErrorClose", c, k, "blank")
    /\ UNCHANGED <<home, live>>
    /\ SessFrame

\* The connection closes (the far end left, the channel dropped): the
\* library destroys the peer and emits 'close'.
TransportClose(c, k) ==
    /\ c \in users
    /\ k \in DOMAIN rtc[c]
    /\ ~rtc[c][k].destroyed
    /\ rtc' = [rtc EXCEPT ![c][k].destroyed = TRUE]
    /\ room' = [room EXCEPT ![c] =
                  IF Mounted(c, k) THEN onClose(@, rtc[c][k].initiator) ELSE @]
    /\ slast' = SStep("onClose", c, k, "blank")
    /\ UNCHANGED <<home, live>>
    /\ SessFrame

PeerIds == 1..MaxPeers
WanKinds == {"host", "srflx", "relay"}

\* One client of either role and either build; the far end and the network
\* are arbitrary.
InitSession == InitState /\ live = {} /\ users = {1}

NextSession ==
    \E c \in Peers :
        \/ HandleStartHost(c)
        \/ HandleStartJoin(c)
        \/ HandleLobbyContinue(c)
        \/ HandleBackToLanding(c)
        \/ HandleGenerateOffer(c)
        \/ \E text \in Texts, throws \in BOOLEAN : HandleConnect(c, text, throws)
        \/ \E text \in Texts, unsupported \in BOOLEAN :
              HandleGenerateAnswer(c, text, unsupported)
        \/ \E k \in PeerIds, type \in SignalTypes, wan \in WanKinds :
              SignalEvent(c, k, type, wan)
        \/ \E k \in PeerIds : ConnectEvent(c, k)
        \/ \E k \in PeerIds : PcConnected(c, k)
        \/ \E k \in PeerIds : FallbackFire(c, k)
        \/ \E k \in PeerIds : IceFailed(c, k)
        \/ \E k \in PeerIds : TransportError(c, k)
        \/ \E k \in PeerIds : TransportClose(c, k)

SpecSession == InitSession /\ [][NextSession]_vars

\* Two clients of the newer build, client 1 hosting and client 2 joining,
\* set up a connection by pasting each other's keys and then watch together;
\* the network offers relay candidates and the transport stays up.
InitE2E == InitState /\ live = {} /\ users = Peers /\ ver = "new"
Keys == {"offer", "answer"}

NextE2E ==
    \/ HandleStartHost(1)
    \/ HandleStartJoin(2)
    \/ \E c \in Peers :
         \/ HandleLobbyContinue(c)
         \/ HandleGenerateOffer(c)
         \/ \E text \in Keys : HandleConnect(c, text, FALSE)
         \/ \E text \in Keys : HandleGenerateAnswer(c, text, FALSE)
         \/ \E k \in PeerIds, type \in Keys : SignalEvent(c, k, type, "relay")
         \/ \E k \in PeerIds : ConnectEvent(c, k)
         \/ TogglePlay(c)
         \/ \E time \in Positions : HandleSeek(c, time)
         \/ HandleFileSelect(c, TRUE)
         \/ HandleData(c)
         \/ Render(c)
         \/ TimerFire(c)
    \/ Tick

SpecE2E == InitE2E /\ [][NextE2E]_vars

\* One guest of either build who stays in the join view; the host and the
\* network are arbitrary, and the guest may paste any kind of text.
InitGuest == InitState /\ live = {} /\ users = {2}
OfferIds == 1..MaxOffers

NextGuest ==
    \E c \in Peers :
        \/ HandleStartJoin(c)
        \/ HandleLobbyContinue(c)
        \/ \E text \in JSONTexts, unsupported \in BOOLEAN :
              HandleGenerateAnswer(c, text, unsupported)
        \/ \E k \in OfferIds, type \in SignalTypes, wan \in WanKinds :
              SignalEvent(c, k, type, wan)
        \/ \E k \in OfferIds : ConnectEvent(c, k)
        \/ \E k \in OfferIds : IceFailed(c, k)
        \/ \E k \in OfferIds : TransportError(c, k)
        \/ \E k \in OfferIds : TransportClose(c, k)

SpecGuest == InitGuest /\ [][NextGuest]_vars

\* One client of either role and build sets up its connection with correct
\* keys and then watches; the far end is arbitrary and silent, the
\* connection may be reported by the fallback timer, peer.send may throw,
\* and the transport may close at any time.
NextWatch ==
    \/ \E c \in Peers :
         \/ HandleStartHost(c)
         \/ HandleStartJoin(c)
         \/ HandleLobbyContinue(c)
         \/ HandleGenerateOffer(c)
         \/ HandleConnect(c, "answer", FALSE)
         \/ HandleGenerateAnswer(c, "offer", FALSE)
         \/ \E k \in PeerIds, type \in Keys : SignalEvent(c, k, type, "relay")
         \/ \E k \in PeerIds : ConnectEvent(c, k)
         \/ \E k \in PeerIds : PcConnected(c, k)
         \/ \E k \in PeerIds : FallbackFire(c, k)
         \/ \E k \in PeerIds : TransportClose(c, k)
         \/ TogglePlay(c)
         \/ \E time \in Positions : HandleSeek(c, time)
         \/ TogglePlayPause(c)
         \/ \E time \in Positions : HandleSeekBarChange(c, time)
         \/ HandleFileSelect(c, TRUE)
         \/ NativeEvent(c)
    \/ Tick

SpecWatch == InitSession /\ [][NextWatch]_vars

\* ------------------------------------------------------------------ claims
\* The last step was a handleData run on a message from the other peer that
\* carries the given action.
Handled(action) ==
    /\ last.op = "handleData"
    /\ last.d.action = action
    /\ last.d.senderId # senderId(last.p)

\* The last step was a local play, pause or seek.
LocalMove ==
    last.op \in {"togglePlay", "handleSeek", "handleSeekBarChange", "nativeEvent"}

\* Nothing is in flight between the two peers.
Delivered == \A p \in Peers : chan[p] = <<>>

\* C1: while the settle window of an applied inbound Play runs, the engine
\* hands no Play message to the channel.
C1_NoPlayInSettleWindow ==
    (last.sent # <<>> /\ last.sent[1].action = "play")
        => ~InWindow(playAppliedAt[last.p], now)

\* C2: a message under the engine's own senderId, whatever its action,
\* leaves position, playing state and the applying-remote flag as they were.
C2_SelfEchoIgnored ==
    (last.op = "handleData" /\ last.d.senderId = senderId(last.p))
        => /\ pos[last.p] = last.pos0
           /\ paused[last.p] = last.paused0
           /\ procState[last.p] = last.proc0

\* A Pause under the engine's own id reached a playing, idle engine.
C2_Witness ==
    /\ last.op = "handleData"
    /\ last.d.senderId = senderId(last.p)
    /\ last.d.action = "pause"
    /\ ~last.paused0
    /\ ~last.proc0
    /\ last.pos0 # last.d.timestamp

\* C3: when only one peer has acted, with play, pause and seek alone, and
\* everything sent has been delivered, both players are in the acting peer's
\* playing/paused state, and at one position when the actor's last action
\* was a pause or a seek (on a stopped player).
C3_SingleActorConverges ==
    \A a \in Peers :
        (/\ live = Peers
         /\ lastAct[a] \in Moves
         /\ lastAct[Other(a)] = "none"
         /\ ~loaded[a]
         /\ Delivered)
        => /\ paused[Other(a)] = paused[a]
           /\ (paused[a] /\ lastAct[a] \in {"pause", "seek"}) => pos[Other(a)] = pos[a]

\* C4: when the peers' last play/pause actions crossed on the channel and
\* both messages have been delivered and applied, the two players are in
\* the same playing/paused state.
C4_ConcurrentActionsConverge ==
    (live = Peers /\ crossed /\ Delivered) => paused[1] = paused[2]

\* C5: from the moment an inbound message of the other peer is applied until
\* a full settle window later, the applying-remote flag stays set.
C5_FlagHeldForSettleWindow ==
    \A p \in Peers : InWindow(appliedAt[p], now) => procState[p]

\* C6: an engine in applying-remote mode has its exit scheduled: a settle
\* timer is pending, so the mode ends and sending is not suppressed forever.
C6_ExitScheduled ==
    \A p \in Peers : procState[p] => timers[p] # <<>>

\* C7: an engine in applying-remote mode hands no message of any action to
\* the channel, Ready included.
C7_NoSendWhileApplying ==
    last.sent # <<>> => ~(last.proc0 /\ last.seen0)

\* C8: a play, pause or seek message is handed to the channel no sooner
\* than 200 ms after the previous one of the same engine.
C8_Debounce ==
    (/\ last.sent # <<>>
     /\ last.sent[1].action \in Moves
     /\ last.sentAt0 # NoTime)
        => now - last.sentAt0 >= DEBOUNCE_MS

\* A local action less than 200 ms after a sent message, with the engine
\* idle, produced no message.
C8_Witness ==
    /\ LocalMove
    /\ ~last.seen0
    /\ last.sentAt0 # NoTime
    /\ now - last.sentAt0 < DEBOUNCE_MS
    /\ last.sent = <<>>

\* C9: an inbound Play with timestamp ts on a player at T starts playback;
\* the position becomes ts when |T - ts| > 0.5 s and stays T otherwise.
C9_PlayDriftTolerance ==
    (Handled("play") /\ last.d.timestamp # NaN)
        => /\ ~paused[last.p]
           /\ pos[last.p] = IF Abs(last.pos0 - last.d.timestamp) > SYNC_THRESHOLD
                            THEN last.d.timestamp ELSE last.pos0

\* An inbound Play exactly 0.5 s away started a stopped player and left its
\* position alone.
C9_Witness ==
    /\ Handled("play")
    /\ last.d.timestamp # NaN
    /\ Abs(last.pos0 - last.d.timestamp) = SYNC_THRESHOLD
    /\ last.paused0
    /\ ~paused[last.p]
    /\ pos[last.p] = last.pos0

C11_SeekOnlyMoves ==
    (Handled("seek") /\ last.d.timestamp # NaN)
        => /\ pos[last.p] = last.d.timestamp
           /\ paused[last.p] = last.paused0

\* A playing player within 0.5 s of ts was moved to ts and kept playing.
C11_Witness ==
    /\ Handled("seek")
    /\ last.d.timestamp # NaN
    /\ ~last.paused0
    /\ last.pos0 # last.d.timestamp
    /\ Abs(last.pos0 - last.d.timestamp) <= SYNC_THRESHOLD
    /\ pos[last.p] = last.d.timestamp
    /\ ~paused[last.p]

\* C12: in a run of local play, pause and seek actions, each message handed
\* to the channel carries the player's position at the moment of the action
\* (for a seek, the position sought); in the newer build also when inbound
\* messages arrive in between.
C12_OutboundTimestamps ==
    (/\ last.sent # <<>>
     /\ last.sent[1].action \in Moves
     /\ actPos[last.p] # NoTime
     /\ (ver = "new" \/ injected = 0))
        => last.sent[1].timestamp = actPos[last.p]

\* The older player's play handler sent a Play stamped with the position of
\* a player that had been moved off 0.
C12_Witness ==
    /\ last.op = "nativeEvent"
    /\ last.sent # <<>>
    /\ last.sent[1].action = "play"
    /\ last.sent[1].timestamp = actPos[last.p]
    /\ last.sent[1].timestamp > 0
    /\ injected = 0

\* Both clients report the connection as established.
BothConnected == \A c \in Peers : home[c].connectionStatus = "connected"

\* C13: after the handshake, with both clients connected, a Pause sent by
\* the host's player and handled by the guest's player leaves the guest
\* paused at exactly the timestamp of the message, whatever the guest's
\* position and playing state were.
C13_EndToEndPause ==
    (/\ Handled("pause")
     /\ BothConnected
     /\ home[last.p].role = "guest"
     /\ home[Other(last.p)].role = "host")
        => /\ paused[last.p]
           /\ pos[last.p] = last.d.timestamp

C13_Witness ==
    /\ Handled("pause")
    /\ BothConnected
    /\ home[last.p].role = "guest"
    /\ home[Other(last.p)].role = "host"
    /\ ~last.paused0
    /\ last.pos0 # last.d.timestamp
    /\ last.d.timestamp > 0
    /\ paused[last.p]
    /\ pos[last.p] = last.d.timestamp

\* ---------------------------------------------------------------------------
\* The last step was a submission of the given text to the host's
\* handleConnect, or to the guest's handleGenerateAnswer.
HostSubmitted(text) == slast.op = "handleConnect" /\ slast.text = text
GuestSubmitted(text) == slast.op = "handleGenerateAnswer" /\ slast.text = text

\* The submission of the last step gave nothing to the transport, created
\* no peer and left status and hasSignaledRef as they were.
SubmissionRejected ==
    /\ Len(rtc[slast.c]) = slast.peers0
    /\ SignalCalls(rtc[slast.c]) = slast.calls0
    /\ room[slast.c].status = slast.status0
    /\ room[slast.c].hasSignaled = slast.sig0

\* C14: a well-formed signal of the wrong kind (an offer, or any type other
\* than answer, to the host; an answer, or any type other than offer, to the
\* guest) gets the wrong-signal-type message, which is not the invalid-format
\* message; nothing goes to the transport; the host stays in 'waiting' with
\* hasSignaledRef clear, the guest keeps its status and creates no peer.
C14_RoleGuard ==
    /\ \A text \in SignalTypes \ {"answer"} :
          HostSubmitted(text) =>
              /\ room[slast.c].errorMessage = WrongTypeHost
              /\ WrongTypeHost # InvalidAnswer
              /\ SubmissionRejected
              /\ room[slast.c].status = "waiting"
              /\ ~room[slast.c].hasSignaled
    /\ \A text \in SignalTypes \ {"offer"} :
          GuestSubmitted(text) =>
              /\ room[slast.c].errorMessage = WrongTypeGuest
              /\ WrongTypeGuest # InvalidOffer
              /\ SubmissionRejected

C14_Witness ==
    /\ HostSubmitted("offer")
    /\ room[slast.c].errorMessage = WrongTypeHost
    /\ room[slast.c].status = "waiting"
    /\ rtc[slast.c][room[slast.c].peer].calls = 0

\* C15 as stated: every text that is not JSON, not an object or without a
\* type key gets the invalid-format message.
Malformed ==
    {text \in Texts : \/ JSONparse(text).throws
                      \/ ~(JSONparse(text).truthy /\ JSONparse(text).typeof = "object")
                      \/ ~JSONparse(text).hasType}
C15_MalformedIsInvalidFormat ==
    \A text \in Malformed :
        /\ HostSubmitted(text) =>
              room[slast.c].errorMessage = InvalidAnswer /\ SubmissionRejected
        /\ GuestSubmitted(text) =>
              room[slast.c].errorMessage = InvalidOffer /\ SubmissionRejected

\* C15: a malformed text that is not blank gets the invalid-format message;
\* a blank one (empty or white space) gets the please-paste message; in both
\* cases nothing goes to the transport, no peer is created and the status
\* is unchanged, for the host and the guest.
C15_MalformedRejected ==
    \A text \in Malformed :
        /\ HostSubmitted(text) =>
              /\ room[slast.c].errorMessage =
                    IF trim(text) = "" THEN PasteAnswerFirst ELSE InvalidAnswer
              /\ SubmissionRejected
        /\ GuestSubmitted(text) =>
              /\ room[slast.c].errorMessage =
                    IF trim(text) = "" THEN PasteOfferFirst ELSE InvalidOffer
              /\ SubmissionRejected

C15_Witness ==
    /\ GuestSubmitted("noType")
    /\ room[slast.c].errorMessage = InvalidOffer
    /\ room[slast.c].status = "idle"
    /\ rtc[slast.c] = <<>>

\* C16: once the host's handleConnect has passed an answer to peer.signal,
\* every later submission on that peer gets the already-processing message
\* and changes nothing, and no peer is given a remote signal more than once.
C16_NoDoubleSubmit ==
    /\ \A c \in users : \A k \in DOMAIN rtc[c] : rtc[c][k].calls <= 1
    /\ (slast.op = "handleConnect" /\ slast.given0 > 0) =>
          /\ room[slast.c].errorMessage = AlreadyProcessing
          /\ SubmissionRejected

\* The steps taken by the transport's listeners and timers.
TransportOps ==
    {"onSignal", "onConnect", "onError", "onClose", "onErrorClose",
     "onconnectionstatechange", "fallbackSkipped"}

\* C17: a room whose status is 'error' keeps that status through every
\* later transport event, and a transport-reported error leaves the mounted
\* room in status 'error'.
C17_FailureTerminal ==
    /\ (slast.op \in TransportOps /\ slast.status0 = "error") =>
          /\ room[slast.c].status = "error"
          /\ home[slast.c].connectionStatus # "connected"
    /\ (slast.op \in {"onError", "onErrorClose"} /\ Mounted(slast.c, slast.k)) =>
          room[slast.c].status = "error"

\* The status a room has while it negotiates: the host after handleConnect
\* accepted an answer, the guest after handleGenerateAnswer accepted an offer.
Negotiating(isHost) == IF isHost THEN "connecting" ELSE "generating"

\* C18: Home becomes connected only by a connect of a peer that was given
\* the remote signal, was not torn down, and whose room was negotiating.
C18_ConnectedOnlyFromNegotiating ==
    (/\ slast.op = "onConnect"
     /\ slast.conn0 # "connected"
     /\ home[slast.c].connectionStatus = "connected")
        => /\ slast.given0 > 0
           /\ ~slast.torn0
           /\ slast.status0 = Negotiating(rtc[slast.c][slast.k].initiator)

\* C19: after the connected peer's transport closed, or the user tore the
\* session down, Home no longer reports 'connected'.
C19_ClosedNotReportedConnected ==
    (/\ slast.op \in {"onClose", "onErrorClose", "handleBackToLanding"}
     /\ slast.conn0 = "connected"
     /\ slast.k = home[slast.c].peer \/ slast.op = "handleBackToLanding")
        => home[slast.c].connectionStatus # "connected"

\* C20: a peer that existed when the user tore the session down is
\* destroyed, and Home never takes it up afterwards (the view does not
\* become 'watching' on it, connectionStatus does not become 'connected').
C20_TeardownIsFinal ==
    \A c \in users : \A k \in DOMAIN rtc[c] :
        rtc[c][k].torn =>
            /\ rtc[c][k].destroyed
            /\ home[c].peer # k

\* C21: a signal emitted by the transport whose type is not the session's
\* role kind changes nothing: the published key, the status and the error
\* message of the room stay as they were and nothing is copied to the
\* clipboard.
C21_NonRoleSignalDiscarded ==
    [][(/\ slast'.op = "onSignal"
        /\ slast'.text # RoleKind(rtc[slast'.c][slast'.k].initiator))
          => /\ room'[slast'.c].localData = room[slast'.c].localData
             /\ room'[slast'.c].status = room[slast'.c].status
             /\ room'[slast'.c].errorMessage = room[slast'.c].errorMessage
             /\ ~slast'.copied]_vars

\* C22: once a room shows its key, no later signal of the transport, of
\* any type, publishes again or changes the room's status.
C22_OneLocalSignal ==
    [][(/\ slast'.op = "onSignal"
        /\ Mounted(slast'.c, slast'.k)
        /\ room[slast'.c].localData)
          => /\ ~slast'.copied
             /\ room'[slast'.c].status = room[slast'.c].status]_vars
\* C23: once a guest's room shows its answer, no later submission to
\* handleGenerateAnswer is accepted: no peer is created (so the room's
\* peer is not replaced) and nothing is passed to peer.signal, whatever the
\* transport did in between.
C23_OneOfferAccepted ==
    (/\ slast.op = "handleGenerateAnswer"
     /\ room[slast.c].localData)
        => /\ Len(rtc[slast.c]) = slast.peers0
           /\ SignalCalls(rtc[slast.c]) = slast.calls0
\* A payload that does not decode to a well-formed SyncMessage: JSON.parse
\* rejects it, or its timestamp is missing or not a number.
IllFormed(d) == ~Parses(d) \/ d.timestamp = NaN

\* C24: an inbound payload that is not a well-formed SyncMessage leaves the
\* player's position and playing state as they were.
C24_MalformedDropped ==
    (last.op = "handleData" /\ IllFormed(last.d))
        => /\ pos[last.p] = last.pos0
           /\ paused[last.p] = last.paused0
\* C25: an inbound message of the other peer whose action is 'ready', or
\* any value other than play, pause and seek, leaves the player's position
\* and playing state as they were.
C25_ReadyAndUnknownAreNoOps ==
    (/\ last.op = "handleData"
     /\ Parses(last.d)
     /\ last.d.senderId # senderId(last.p)
     /\ last.d.action \notin Moves)
        => /\ pos[last.p] = last.pos0
           /\ paused[last.p] = last.paused0

\* A Ready of the other peer, stamped with another position, reached a
\* playing player and was taken up (the applying-remote flag was set).
C25_Witness ==
    /\ Handled("ready")
    /\ ~last.paused0
    /\ last.pos0 # last.d.timestamp
    /\ ~last.proc0
    /\ procState[last.p]
    /\ ~paused[last.p]
    /\ pos[last.p] = last.pos0
\* The handlers that reach sendSyncMessage.
SendOps ==
    {"togglePlay", "handleSeek", "handleSeekBarChange", "handleFileSelect",
     "nativeEvent"}

\* C26: no error leaves sendSyncMessage; when the peer is destroyed, or its
\* send throws, nothing is handed to the channel, the room, Home and the
\* peers stay as they were, and the player is changed by the user's own
\* action only: a native event handler leaves it alone, a play or pause
\* leaves the position, a seek leaves the playing state.
C26_SendFailsSilently ==
    [][(/\ acts' # acts \/ events' # events
        /\ last'.op \in SendOps)
          => /\ ~last'.raised
             /\ (last'.link0 # "open" \/ last'.threw) =>
                   /\ last'.sent = <<>>
                   /\ chan' = chan
                   /\ UNCHANGED <<home, room, rtc>>
                   /\ last'.op = "nativeEvent" => UNCHANGED <<pos, paused>>
                   /\ last'.op = "togglePlay" => pos' = pos
                   /\ last'.op \in {"handleSeek", "handleSeekBarChange"} =>
                         paused' = paused]_vars

\* A play or pause on a player whose peer had been destroyed sent nothing
\* and raised nothing; Home still shows the watching view.
C26_Witness ==
    /\ last.op = "togglePlay"
    /\ last.link0 = "destroyed"
    /\ last.sent = <<>>
    /\ ~last.raised
    /\ paused[last.p] # last.paused0
    /\ home[last.p].currentView = "watching"
\* The texts that denote a JSON object with a type key.
TypedObjects == {"offer", "answer", "candidate"}

\* C27: validateSignalData accepts a text exactly when it is JSON for a
\* non-null object with a type key; every other text (not JSON, null, a
\* number, a string, an array, an object without type) is rejected, and a
\* guest who submits one gets the invalid-format message (the please-paste
\* message for blank text) with nothing else changed.
C27_SignalValidity ==
    /\ \A text \in JSONTexts : validateSignalData(text) <=> text \in TypedObjects
    /\ \A text \in JSONTexts \ TypedObjects :
          GuestSubmitted(text) =>
              /\ room[slast.c].errorMessage =
                    IF trim(text) = "" THEN PasteOfferFirst ELSE InvalidOffer
              /\ SubmissionRejected

\* A guest submitted JSON null (typeof 'object', but falsy) and got the
\* invalid-format message.
C27_Witness ==
    /\ GuestSubmitted("null")
    /\ ~validateSignalData("null")
    /\ room[slast.c].errorMessage = InvalidOffer
    /\ SubmissionRejected
\* The engine was in applying-remote mode, or had sent a message less than
\* 200 ms before, when the last step began.
GuardsActive ==
    \/ last.proc0
    \/ last.seen0
    \/ last.sentAt0 # NoTime /\ now - last.sentAt0 < DEBOUNCE_MS

\* C28: a well-formed play, pause or seek of the other peer is applied to
\* the player also when it arrives in applying-remote mode or within
\* 200 ms of the engine's last send: a Play starts playback (moving to ts
\* beyond 0.5 s of drift), a Pause stops it (at ts in the newer build, beyond
\* 0.5 s of drift in the older), a Seek moves to ts.
C28_InboundNotBlocked ==
    (/\ last.op = "handleData"
     /\ Parses(last.d)
     /\ last.d.senderId # senderId(last.p)
     /\ last.d.action \in Moves
     /\ last.d.timestamp # NaN
     /\ GuardsActive)
        => LET ts == last.d.timestamp
               far == Abs(last.pos0 - ts) > SYNC_THRESHOLD
               drifted == IF far THEN ts ELSE last.pos0 IN
           /\ last.d.action = "play" =>
                 ~paused[last.p] /\ pos[last.p] = drifted
           /\ last.d.action = "pause" =>
                 /\ paused[last.p]
                 /\ pos[last.p] = IF ver = "new" THEN ts ELSE drifted
           /\ last.d.action = "seek" =>
                 pos[last.p] = ts /\ paused[last.p] = last.paused0

\* A Seek arrived in applying-remote mode, in the instant of the engine's
\* own last send, and moved the player.
C28_Witness ==
    /\ Handled("seek")
    /\ last.proc0
    /\ last.seen0
    /\ last.sentAt0 = now
    /\ last.d.timestamp # NaN
    /\ last.pos0 # last.d.timestamp
    /\ pos[last.p] = last.d.timestamp
\* The handlers of a local play, pause or seek that call sendSync.
Attempts == {"togglePlay", "handleSeek", "handleSeekBarChange", "nativeEvent"}

\* C29: a local play, pause or seek on a connected engine that is not sent,
\* because of the applying-remote guard or the debounce, leaves the local
\* player's position and playing state as they were.
C29_SuppressedLeavesPlayer ==
    (/\ last.op \in Attempts
     /\ last.link0 = "open"
     /\ ~last.threw
     /\ last.sent = <<>>)
        => /\ pos[last.p] = last.pos0
           /\ paused[last.p] = last.paused0
\* C30: a local play, pause or seek attempt that is dropped leaves
\* lastSyncTimeRef as it was, and an attempt made by an engine that is not
\* applying a remote message, 200 ms or more after the last attempt that
\* passed, is sent and becomes the new start of the interval.
C30_DroppedKeepsDebounce ==
    [][\A p \in Peers :
          (/\ acts' # acts \/ events' # events
           /\ last'.op \in Attempts
           /\ last'.p = p)
            => /\ last'.sent = <<>> => lastSyncTime'[p] = lastSyncTime[p]
               /\ (/\ ~procSeen[p]
                   /\ ~procState[p]
                   /\ now - lastSyncTime[p] >= DEBOUNCE_MS)
                     => /\ last'.sent # <<>>
                        /\ lastSyncTime'[p] = now]_vars

\* An attempt made in the instant of the engine's last send was dropped by
\* the debounce, and lastSyncTimeRef still holds the time of that send.
C30_Witness ==
    /\ last.op \in Attempts
    /\ last.sent = <<>>
    /\ ~last.seen0
    /\ ~last.proc0
    /\ last.sentAt0 # NoTime
    /\ now - last.sentAt0 < DEBOUNCE_MS
    /\ lastSyncTime[last.p] = last.sentAt0

\* C31: connect is reported once: onConnect, and through it
\* handleConnectionEstablished, never runs for a peer that Home already
\* holds because an earlier onConnect of that peer stored it, whatever the
\* order of the 'connect' event and the fallback timer.
C31_ConnectReportedOnce ==
    slast.op = "onConnect" => ~slast.held0

\* C32: the page's state is consistent: in the 'watching' view a peer is
\* stored, connectionStatus is 'connected' and the role is host or guest;
\* in the 'landing' view connectionStatus is 'disconnected' and no peer is
\* stored.
C32_PageConsistent ==
    \A c \in users :
        /\ home[c].currentView = "watching" =>
              /\ home[c].peer # NoPeer
              /\ home[c].connectionStatus = "connected"
              /\ home[c].role \in {"host", "guest"}
        /\ home[c].currentView = "landing" =>
              /\ home[c].connectionStatus = "disconnected"
              /\ home[c].peer = NoPeer

\* C33: every play, pause, seek and ready message an engine sends carries
\* a timestamp that is a number and not negative.
C33_TimestampsNonNegative ==
    \A i \in DOMAIN last.sent :
        last.sent[i].action \in {"play", "pause", "seek", "ready"}
            => last.sent[i].timestamp # NaN /\ last.sent[i].timestamp >= 0

====
